---- MODULE Spec2Model ----
(***************************************************************************)
(* The route table and dispatcher of src/routing/router.rs (struct Route,  *)
(* handle, lookup, allowed, serve_http).  Strings are sequences of         *)
(* one-character strings; the Allow header is the sequence of the method   *)
(* names that allowed() joins with ", ".  The routing tree                 *)
(* (crate::routing::tree::Node) and clean_path (crate::routing::path) are  *)
(* not part of the source at hand; they are modelled from the              *)
(* specification's sections 4.1 and 4.3 to 4.5: a Node is the function     *)
(* from its registered patterns to their handlers.                         *)
(***************************************************************************)
EXTENDS Integers, Sequences, FiniteSets, TLC

\* ------------------------------------------------------------------ bounds
\* Successful registrations made before the model stops registering.
MaxRoutes == 2
\* Length of the request paths the model enumerates.
MaxPathLen == 3

\* ------------------------------------------------------------ input domains
\* Method names, in the order BTreeMap<String, _> iterates its keys.
MethodOrder == <<"CONNECT", "GET", "HEAD", "OPTIONS">>
Methods == {MethodOrder[i] : i \in 1..Len(MethodOrder)}

PathChars == {"/", "a", "A"}
Star == <<"*">>

\* Patterns handed to handle(): two static routes that differ in the trailing
\* slash, a named parameter, and one pattern without the leading '/'.
Patterns == {<<"/", "a">>, <<"/", "a", "/">>, <<"/", ":", "p">>, <<"a">>}

RECURSIVE SeqsUpTo(_)
SeqsUpTo(n) ==
  IF n = 0 THEN {<<>>}
  ELSE LET shorter == SeqsUpTo(n - 1)
       IN shorter \cup {Append(s, c) : s \in {t \in shorter : Len(t) = n - 1}, c \in PathChars}

\* Request paths: origin-form paths (they start with '/') and the asterisk form.
ReqPaths == {p \in SeqsUpTo(MaxPathLen) : Len(p) >= 1 /\ p[1] = "/"} \cup {Star}

\* Option::None for a handler; Params::new().
None == <<>>
NoParams == <<>>

\* The handler a caller passes to handle(method, pattern, .): handlers are opaque
\* to the router, one distinct value per registration.
HandlerOf(method, pattern) == <<method, pattern>>
NotFoundHandler == <<"not_found", <<>>>>
MethodNotAllowedHandler == <<"method_not_allowed", <<>>>>

\* --------------------------------------------------------- string helpers
StartsWithSlash(path) == Len(path) >= 1 /\ path[1] = "/"
EndsWithSlash(path) == Len(path) >= 1 /\ path[Len(path)] = "/"
Lower(c) == IF c = "A" THEN "a" ELSE c

\* Index of the first '/' of s, or Len(s) + 1.
RECURSIVE SegEnd(_)
SegEnd(s) == IF s = <<>> \/ Head(s) = "/" THEN 1 ELSE 1 + SegEnd(Tail(s))

DropFirst(s, n) == SubSeq(s, n + 1, Len(s))

\* ------------------------------------------- routing tree (specification 4.3-4.5)
EmptyNode == [p \in {} |-> None]

\* Whether `path` has the shape of `pat`, and the parameters it binds.
RECURSIVE Match(_, _)
Match(pat, path) ==
  IF pat = <<>> THEN [ok |-> path = <<>>, ps |-> NoParams]
  ELSE IF Head(pat) = ":" THEN
    LET pe == SegEnd(pat)
        ve == SegEnd(path)
        value == SubSeq(path, 1, ve - 1)
        rest == Match(DropFirst(pat, pe - 1), DropFirst(path, ve - 1))
    IN IF value = <<>> THEN [ok |-> FALSE, ps |-> NoParams]
       ELSE [ok |-> rest.ok,
             ps |-> IF rest.ok
                    THEN <<[key |-> SubSeq(pat, 2, pe - 1), value |-> value]>> \o rest.ps
                    ELSE NoParams]
  ELSE IF path # <<>> /\ Head(path) = Head(pat) THEN Match(Tail(pat), Tail(path))
  ELSE [ok |-> FALSE, ps |-> NoParams]

\* Two patterns of one tree that add_route refuses to hold together: a wildcard
\* segment against a static one, or against a wildcard of another name.
RECURSIVE Conflicts(_, _)
Conflicts(p, q) ==
  IF p = <<>> \/ q = <<>> THEN FALSE
  ELSE IF Head(p) = ":" \/ Head(q) = ":" THEN
    IF SubSeq(p, 1, SegEnd(p) - 1) = SubSeq(q, 1, SegEnd(q) - 1)
    THEN Conflicts(DropFirst(p, SegEnd(p) - 1), DropFirst(q, SegEnd(q) - 1))
    ELSE TRUE
  ELSE IF Head(p) = Head(q) THEN Conflicts(Tail(p), Tail(q))
  ELSE FALSE

\* add_route's registration-time fatal errors on a pattern that starts with '/'.
AddRoutePanics(node, pattern) ==
  \/ pattern \in DOMAIN node
  \/ \E q \in DOMAIN node : Conflicts(pattern, q)

add_route(node, pattern, handle) ==
  [p \in DOMAIN node \cup {pattern} |-> IF p = pattern THEN handle ELSE node[p]]

\* The path with one trailing '/' removed, or added.
SlashVariant(path) ==
  IF Len(path) > 1 /\ EndsWithSlash(path) THEN SubSeq(path, 1, Len(path) - 1)
  ELSE Append(path, "/")

get_value(node, path) ==
  LET hits == {pat \in DOMAIN node : Match(pat, path).ok}
  IN IF hits # {}
     THEN LET pat == CHOOSE q \in hits : TRUE
          IN [handle |-> node[pat], ps |-> Match(pat, path).ps, tsr |-> FALSE]
     ELSE [handle |-> None, ps |-> NoParams,
           tsr |-> \E pat \in DOMAIN node : Match(pat, SlashVariant(path)).ok]

\* The case-insensitive descent: static text compared without case and rewritten
\* to the tree's text, parameter values passed through.
RECURSIVE CiMatch(_, _)
CiMatch(pat, path) ==
  IF pat = <<>> THEN [ok |-> path = <<>>, out |-> <<>>]
  ELSE IF Head(pat) = ":" THEN
    LET pe == SegEnd(pat)
        ve == SegEnd(path)
        value == SubSeq(path, 1, ve - 1)
        rest == CiMatch(DropFirst(pat, pe - 1), DropFirst(path, ve - 1))
    IN IF value = <<>> THEN [ok |-> FALSE, out |-> <<>>]
       ELSE [ok |-> rest.ok, out |-> value \o rest.out]
  ELSE IF path # <<>> /\ Lower(Head(path)) = Lower(Head(pat)) THEN
    LET rest == CiMatch(Tail(pat), Tail(path))
    IN [ok |-> rest.ok, out |-> <<Head(pat)>> \o rest.out]
  ELSE [ok |-> FALSE, out |-> <<>>]

CiFixes(node, path) ==
  {CiMatch(pat, path).out : pat \in {q \in DOMAIN node : CiMatch(q, path).ok}}

find_case_insensitive_path(node, path, fix_trailing_slash) ==
  IF CiFixes(node, path) # {}
  THEN [path |-> CHOOSE c \in CiFixes(node, path) : TRUE, found |-> TRUE]
  ELSE IF fix_trailing_slash /\ CiFixes(node, SlashVariant(path)) # {}
  THEN [path |-> CHOOSE c \in CiFixes(node, SlashVariant(path)) : TRUE, found |-> TRUE]
  ELSE [path |-> <<>>, found |-> FALSE]

\* clean_path on the model's alphabet, which has no '.': a leading '/', repeated
\* '/' collapsed, the trailing '/' removed unless the path is "/".
RECURSIVE Collapse(_)
Collapse(s) ==
  IF Len(s) <= 1 THEN s
  ELSE IF s[1] = "/" /\ s[2] = "/" THEN Collapse(Tail(s))
  ELSE <<Head(s)>> \o Collapse(Tail(s))

clean_path(path) ==
  LET rooted == IF StartsWithSlash(path) THEN path ELSE <<"/">> \o path
      c == Collapse(rooted)
  IN IF Len(c) > 1 /\ EndsWithSlash(c) THEN SubSeq(c, 1, Len(c) - 1) ELSE c

\* ------------------------------------------------------------------ state
VARIABLES
  trees,                      \* Route.trees: method name -> Node
  redirect_trailing_slash,
  redirect_fixed_path,
  handle_method_not_allowed,
  handle_options,
  not_found,                  \* Option<T>
  method_not_allowed,         \* Option<T>
  fatal,                      \* a panic has ended the program
  call,                       \* the operation last called, with its arguments
  resp,                       \* what the last serve_http produced
  found,                      \* what the last lookup returned
  listed,                     \* what the last allowed returned
  workers,                    \* the dispatches in progress, one per worker task
  registered                  \* history: the <<method, pattern>> of every handle() that returned

table == <<trees, redirect_trailing_slash, redirect_fixed_path,
           handle_method_not_allowed, handle_options, not_found, method_not_allowed>>
vars == <<trees, redirect_trailing_slash, redirect_fixed_path, handle_method_not_allowed,
          handle_options, not_found, method_not_allowed, fatal, call, resp, found,
          listed, workers, registered>>

Call(op, method, path) == [op |-> op, method |-> method, path |-> path]

\* The program is between two calls: no panic has ended it, and the value the
\* last lookup or serve_http returned has been taken by its caller.
Returning == call.op \in {"lookup", "allowed", "serve_http"}
Idle == ~fatal /\ ~Returning

\* ---------------------------------------------------------------- responses
NoResp == [kind |-> "none", status |-> 0, handler |-> None, ps |-> NoParams,
           location |-> <<>>, allow |-> <<>>, body |-> ""]
\* handler.handle(req, ps): the handler's own result is the response.
Invoke(handler, ps) == [NoResp EXCEPT !.kind = "invoke", !.handler = handler, !.ps = ps]
\* A response built by the router; an empty location or allow is an absent header.
Built(status, location, allow, body) ==
  [NoResp EXCEPT !.kind = "response", !.status = status, !.location = location,
                 !.allow = allow, !.body = body]

NoLookup == [handle |-> None, ps |-> NoParams, tsr |-> FALSE]

\* The tasks of the hosting runtime that share the table and dispatch at once.
Workers == {"w1", "w2"}
\* The requests they dispatch.
ConcPaths == {<<"/", "a", "/">>, Star}
\* A worker's dispatch: where it is in serve_http, its request, the tree it
\* looked up and the response it returns.
IdleWorker == [pc |-> "idle", method |-> "", path |-> <<>>, root |-> <<>>, resp |-> NoResp]

\* ------------------------------------------------------------- Route methods
Init ==
  /\ trees = [m \in {} |-> EmptyNode]
  /\ redirect_trailing_slash = TRUE
  /\ redirect_fixed_path = TRUE
  /\ handle_method_not_allowed = TRUE
  /\ handle_options = TRUE
  /\ not_found = None
  /\ method_not_allowed = None
  /\ fatal = FALSE
  /\ call = Call("new", "", <<>>)
  /\ resp = NoResp
  /\ found = NoLookup
  /\ listed = <<>>
  /\ workers = [w \in Workers |-> IdleWorker]
  /\ registered = {}

\* self.trees.entry(method).or_insert(Node::new())
WithEntry(method) ==
  [m \in DOMAIN trees \cup {method} |-> IF m \in DOMAIN trees THEN trees[m] ELSE EmptyNode]

\* handle with the tree's entry made before the pattern is looked at.
HandleEntryFirst(method, path) ==
  /\ Idle
  /\ call' = Call("handle", method, path)
  /\ resp' = NoResp
  /\ found' = NoLookup
  /\ listed' = <<>>
  /\ UNCHANGED <<redirect_trailing_slash, redirect_fixed_path, handle_method_not_allowed,
                 handle_options, not_found, method_not_allowed>>
  /\ IF ~StartsWithSlash(path) \/ AddRoutePanics(WithEntry(method)[method], path)
     THEN /\ fatal' = TRUE
          /\ trees' = WithEntry(method)
          /\ UNCHANGED registered
     ELSE /\ Cardinality(registered) < MaxRoutes
          /\ trees' = [WithEntry(method) EXCEPT
                         ![method] = add_route(@, path, HandlerOf(method, path))]
          /\ registered' = registered \cup {<<method, path>>}
          /\ UNCHANGED fatal

Handle(method, path) ==
  /\ Idle
  /\ call' = Call("handle", method, path)
  /\ resp' = NoResp
  /\ found' = NoLookup
  /\ listed' = <<>>
  /\ UNCHANGED <<redirect_trailing_slash, redirect_fixed_path, handle_method_not_allowed,
                 handle_options, not_found, method_not_allowed>>
  /\ IF ~StartsWithSlash(path)
     THEN /\ fatal' = TRUE
          /\ UNCHANGED <<trees, registered>>
     ELSE IF AddRoutePanics(WithEntry(method)[method], path)
     THEN /\ fatal' = TRUE
          /\ trees' = WithEntry(method)
          /\ UNCHANGED registered
     ELSE /\ Cardinality(registered) < MaxRoutes
          /\ trees' = [WithEntry(method) EXCEPT
                         ![method] = add_route(@, path, HandlerOf(method, path))]
          /\ registered' = registered \cup {<<method, path>>}
          /\ UNCHANGED fatal

lookup(method, path) ==
  IF method \in DOMAIN trees THEN get_value(trees[method], path) ELSE NoLookup

Lookup(method, path) ==
  /\ Idle
  /\ call' = Call("lookup", method, path)
  /\ found' = lookup(method, path)
  /\ resp' = NoResp
  /\ listed' = <<>>
  /\ UNCHANGED <<table, fatal, registered>>

\* self.trees.keys(), in the map's order.
Keys == SelectSeq(MethodOrder, LAMBDA m : m \in DOMAIN trees)

\* allowed whose "*" branch does not skip OPTIONS.
allowedStarKeepsOptions(path, req_method) ==
  LET allow ==
        IF path = Star
        THEN Keys
        ELSE SelectSeq(Keys, LAMBDA m : /\ m # req_method
                                        /\ m # "OPTIONS"
                                        /\ get_value(trees[m], path).handle # None)
  IN IF Len(allow) > 0 THEN Append(allow, "OPTIONS") ELSE allow

\* allowed without the test `handle.is_some()`.
allowedAnyTree(path, req_method) ==
  LET allow ==
        IF path = Star
        THEN SelectSeq(Keys, LAMBDA m : m # "OPTIONS")
        ELSE SelectSeq(Keys, LAMBDA m : m # req_method /\ m # "OPTIONS")
  IN IF Len(allow) > 0 THEN Append(allow, "OPTIONS") ELSE allow

allowed(path, req_method) ==
  LET allow ==
        IF path = Star
        THEN SelectSeq(Keys, LAMBDA m : m # "OPTIONS")
        ELSE SelectSeq(Keys, LAMBDA m : /\ m # req_method
                                        /\ m # "OPTIONS"
                                        /\ get_value(trees[m], path).handle # None)
  IN IF Len(allow) > 0 THEN Append(allow, "OPTIONS") ELSE allow

Allowed(path, req_method) ==
  /\ Idle
  /\ call' = Call("allowed", req_method, path)
  /\ listed' = allowed(path, req_method)
  /\ resp' = NoResp
  /\ found' = NoLookup
  /\ UNCHANGED <<table, fatal, registered>>

RedirectCodeGetOrHead(method) == IF method \notin {"GET", "HEAD"} THEN 307 ELSE 301

RedirectCode(method) == IF method # "GET" THEN 307 ELSE 301

ToggledPathAlwaysAppends(path) == Append(path, "/")

ToggledPath(path) ==
  IF Len(path) > 1 /\ EndsWithSlash(path) THEN SubSeq(path, 1, Len(path) - 1)
  ELSE Append(path, "/")

\* A lookup that falls back to the GET tree.
RootOrGet(method) ==
  IF method \in DOMAIN trees THEN <<trees[method]>>
  ELSE IF "GET" \in DOMAIN trees THEN <<trees["GET"]>>
  ELSE <<>>

\* self.trees.get(method): an Option, here a sequence of no or one Node.
Root(method) == IF method \in DOMAIN trees THEN <<trees[method]>> ELSE <<>>

\* serve_http up to the end of `if let Some(root) = root`: the response it
\* returns there, or NoResp when it falls through.
Routed(root, method, path) ==
  IF root = <<>> THEN NoResp
  ELSE LET v == get_value(root[1], path)
       IN IF v.handle # None THEN Invoke(v.handle, v.ps)
          ELSE IF method # "CONNECT" /\ path # <<"/">>
          THEN IF v.tsr /\ redirect_trailing_slash
               THEN Built(RedirectCode(method), ToggledPath(path), <<>>, "")
               ELSE IF redirect_fixed_path
               THEN LET fix == find_case_insensitive_path(root[1], clean_path(path),
                                                          redirect_trailing_slash)
                    IN IF fix.found
                       THEN Built(RedirectCode(method), fix.path, <<>>, "")
                       ELSE NoResp
               ELSE NoResp
          ELSE NoResp

\* The method-not-allowed branch once `allow` is known to be non-empty.
MethodNotAllowedReply(allow) ==
  IF method_not_allowed # None
  THEN Invoke(method_not_allowed, NoParams)
  ELSE Built(405, <<>>, allow, "METHOD_NOT_ALLOWED")

\* The 404 branch without `.status(404)`.
NotFoundReplyNoStatus ==
  IF not_found # None THEN Invoke(not_found, NoParams)
  ELSE Built(200, <<>>, <<>>, "NOT_FOUND")

NotFoundReply ==
  IF not_found # None THEN Invoke(not_found, NoParams)
  ELSE Built(404, <<>>, <<>>, "NOT_FOUND")

\* serve_http from the OPTIONS test to its end.
Unrouted(method, path) ==
  IF method = "OPTIONS" /\ handle_options
  THEN LET allow == allowed(path, method)
       IN IF Len(allow) > 0 THEN Built(200, <<>>, allow, "") ELSE NotFoundReply
  ELSE IF handle_method_not_allowed
  THEN LET allow == allowed(path, method)
       IN IF Len(allow) > 0 THEN MethodNotAllowedReply(allow) ELSE NotFoundReply
  ELSE NotFoundReply

\* serve_http with the OPTIONS test moved ahead of the tree lookup.
serve_http_options_first(method, path) ==
  LET r == Routed(Root(method), method, path)
  IN IF method = "OPTIONS" /\ handle_options /\ Len(allowed(path, method)) > 0
     THEN Built(200, <<>>, allowed(path, method), "")
     ELSE IF r # NoResp THEN r ELSE Unrouted(method, path)

serve_http(method, path) ==
  LET r == Routed(Root(method), method, path)
  IN IF r # NoResp THEN r ELSE Unrouted(method, path)

ServeHttp(method, path) ==
  /\ Idle
  /\ call' = Call("serve_http", method, path)
  /\ resp' = serve_http(method, path)
  /\ found' = NoLookup
  /\ listed' = <<>>
  /\ UNCHANGED <<table, fatal, registered>>

\* The public fields, assigned by the embedding program.
Configured ==
  /\ Idle
  /\ call' = Call("config", "", <<>>)
  /\ resp' = NoResp
  /\ found' = NoLookup
  /\ listed' = <<>>
  /\ UNCHANGED <<trees, fatal, registered>>

SetRedirectTrailingSlash(b) ==
  /\ Configured
  /\ redirect_trailing_slash' = b
  /\ UNCHANGED <<redirect_fixed_path, handle_method_not_allowed, handle_options,
                 not_found, method_not_allowed>>

SetRedirectFixedPath(b) ==
  /\ Configured
  /\ redirect_fixed_path' = b
  /\ UNCHANGED <<redirect_trailing_slash, handle_method_not_allowed, handle_options,
                 not_found, method_not_allowed>>

SetHandleMethodNotAllowed(b) ==
  /\ Configured
  /\ handle_method_not_allowed' = b
  /\ UNCHANGED <<redirect_trailing_slash, redirect_fixed_path, handle_options,
                 not_found, method_not_allowed>>

SetHandleOptions(b) ==
  /\ Configured
  /\ handle_options' = b
  /\ UNCHANGED <<redirect_trailing_slash, redirect_fixed_path, handle_method_not_allowed,
                 not_found, method_not_allowed>>

SetNotFound(h) ==
  /\ Configured
  /\ not_found' = h
  /\ UNCHANGED <<redirect_trailing_slash, redirect_fixed_path, handle_method_not_allowed,
                 handle_options, method_not_allowed>>

SetMethodNotAllowed(h) ==
  /\ Configured
  /\ method_not_allowed' = h
  /\ UNCHANGED <<redirect_trailing_slash, redirect_fixed_path, handle_method_not_allowed,
                 handle_options, not_found>>

\* The caller of lookup, allowed or serve_http takes the returned value.
Return ==
  /\ ~fatal
  /\ Returning
  /\ call' = Call("return", "", <<>>)
  /\ resp' = NoResp
  /\ found' = NoLookup
  /\ listed' = <<>>
  /\ UNCHANGED <<table, fatal, registered>>

\* One caller at a time: every operation runs to its end before the next.
Sequential ==
  \/ \E m \in Methods, p \in Patterns : Handle(m, p)
  \/ \E m \in Methods, p \in ReqPaths : Lookup(m, p)
  \/ \E m \in Methods, p \in ReqPaths : Allowed(p, m)
  \/ \E m \in Methods, p \in ReqPaths : ServeHttp(m, p)
  \/ \E b \in BOOLEAN : SetRedirectTrailingSlash(b)
  \/ \E b \in BOOLEAN : SetRedirectFixedPath(b)
  \/ \E b \in BOOLEAN : SetHandleMethodNotAllowed(b)
  \/ \E b \in BOOLEAN : SetHandleOptions(b)
  \/ \E h \in {None, NotFoundHandler} : SetNotFound(h)
  \/ \E h \in {None, MethodNotAllowedHandler} : SetMethodNotAllowed(h)
  \/ Return

Next == Sequential /\ UNCHANGED workers

Spec == Init /\ [][Next]_vars

\* ------------------------------------------------ concurrent dispatch (&self)
\* serve_http borrows the table shared (&self) and handle borrows it exclusively
\* (&mut self): a registration runs only while no dispatch is in progress.
NoDispatch == \A w \in Workers : workers[w].pc = "idle"

sequential == <<call, resp, found, listed>>

\* A worker task takes a request and enters serve_http.
Accept(w, method, path) ==
  /\ ~fatal
  /\ workers[w].pc = "idle"
  /\ workers' = [workers EXCEPT ![w] = [IdleWorker EXCEPT !.pc = "lookup",
                                                          !.method = method,
                                                          !.path = path]]
  /\ UNCHANGED <<table, fatal, registered, sequential>>

\* LookupRoot through `entry(..).or_insert(Node::new())`, which writes the map.
LookupRootInserting(w) ==
  /\ workers[w].pc = "lookup"
  /\ trees' = WithEntry(workers[w].method)
  /\ workers' = [workers EXCEPT ![w].root = <<WithEntry(workers[w].method)[workers[w].method]>>,
                                 ![w].pc = "route"]
  /\ UNCHANGED <<redirect_trailing_slash, redirect_fixed_path, handle_method_not_allowed,
                 handle_options, not_found, method_not_allowed, fatal, registered,
                 sequential>>

\* let root = self.trees.get(req.method().as_str());
LookupRoot(w) ==
  /\ workers[w].pc = "lookup"
  /\ workers' = [workers EXCEPT ![w].root = Root(workers[w].method), ![w].pc = "route"]
  /\ UNCHANGED <<table, fatal, registered, sequential>>

\* The `if let Some(root) = root` block: the handler, a redirect, or on.
Route(w) ==
  /\ workers[w].pc = "route"
  /\ LET r == Routed(workers[w].root, workers[w].method, workers[w].path)
     IN workers' = [workers EXCEPT ![w].resp = r,
                                   ![w].pc = IF r # NoResp THEN "done" ELSE "unrouted"]
  /\ UNCHANGED <<table, fatal, registered, sequential>>

\* The OPTIONS, method-not-allowed and not-found steps.
Fallback(w) ==
  /\ workers[w].pc = "unrouted"
  /\ workers' = [workers EXCEPT ![w].resp = Unrouted(workers[w].method, workers[w].path),
                                 ![w].pc = "done"]
  /\ UNCHANGED <<table, fatal, registered, sequential>>

\* The response is handed to the runtime.
Respond(w) ==
  /\ workers[w].pc = "done"
  /\ workers' = [workers EXCEPT ![w] = IdleWorker]
  /\ UNCHANGED <<table, fatal, registered, sequential>>

NextConc ==
  \/ /\ NoDispatch
     /\ \E m \in Methods, p \in Patterns : Handle(m, p)
     /\ UNCHANGED workers
  \/ /\ NoDispatch
     /\ \E h \in {None, MethodNotAllowedHandler} : SetMethodNotAllowed(h)
     /\ UNCHANGED workers
  \/ \E w \in Workers, m \in Methods, p \in ConcPaths : Accept(w, m, p)
  \/ \E w \in Workers : LookupRoot(w)
  \/ \E w \in Workers : Route(w)
  \/ \E w \in Workers : Fallback(w)
  \/ \E w \in Workers : Respond(w)

SpecConc == Init /\ [][NextConc]_vars

\* ------------------------------------------------------- vocabulary of the claims
\* The last call was serve_http(call.method, call.path) and resp is its response.
Served == call.op = "serve_http"
\* resp is a response the router built with a Location header.
IsRedirect(r) == r.kind = "response" /\ r.location # <<>>
\* By the history of registrations: the pattern of `method` that `path` matches.
RoutesFor(method, path) ==
  {r \in registered : r[1] = method /\ Match(r[2], path).ok}
RegisteredMethods == {r[1] : r \in registered}

\* C1 (as claimed): every redirect of serve_http has status 301 for GET and for
\* HEAD, and 307 for every other method.
C1_Claimed ==
  (Served /\ IsRedirect(resp)) =>
    resp.status = IF call.method \in {"GET", "HEAD"} THEN 301 ELSE 307

\* C1 (amended): every redirect of serve_http has status 301 when the request
\* method is GET and 307 for every other method, HEAD included.
C1_RedirectStatus ==
  (Served /\ IsRedirect(resp)) =>
    resp.status = IF call.method = "GET" THEN 301 ELSE 307

C1_Witness ==
  /\ Served /\ IsRedirect(resp)
  /\ call.method = "HEAD" /\ resp.status = 307

\* The claims' own toggling: the final '/' removed if there is one, else one added.
SlashToggled(path) ==
  IF EndsWithSlash(path) THEN SubSeq(path, 1, Len(path) - 1) ELSE Append(path, "/")

\* The request's method has a tree, whose match finds no handler and recommends
\* the trailing-slash redirect, and redirect_trailing_slash is set.
TsrCase ==
  /\ Served
  /\ call.method \in DOMAIN trees
  /\ get_value(trees[call.method], call.path).handle = None
  /\ get_value(trees[call.method], call.path).tsr
  /\ redirect_trailing_slash

\* C2 (as claimed): for every method with a tree, a match without handler that
\* recommends the trailing slash is, with redirect_trailing_slash set, answered
\* by a redirect to the request path with its trailing slash toggled.
C2_Claimed ==
  TsrCase => (IsRedirect(resp) /\ resp.location = SlashToggled(call.path))

\* C2 (amended): the same, for every method but CONNECT and every path but "/".
C2_TrailingSlashRedirect ==
  (TsrCase /\ call.method # "CONNECT" /\ call.path # <<"/">>) =>
    (IsRedirect(resp) /\ resp.location = SlashToggled(call.path))

C2_Witness ==
  /\ TsrCase
  /\ call.method = "GET"
  /\ call.path = <<"/", "a", "/">>
  /\ <<"GET", <<"/", "a">>>> \in registered
  /\ resp.location = <<"/", "a">>

\* The methods, in the table's order, that have a handler for `path`, without
\* those of `except`.
MethodsWithHandler(path, except) ==
  SelectSeq(MethodOrder, LAMBDA m : m \notin except /\ RoutesFor(m, path) # {})

\* C3 (as claimed): a request whose method has no handler for the path, with
\* handle_method_not_allowed set, no method_not_allowed handler and another
\* method with a handler for the path, gets 405 and an Allow header of exactly
\* the other methods with a handler for the path, in order, then OPTIONS.
C3_Claimed ==
  ( /\ Served
    /\ RoutesFor(call.method, call.path) = {}
    /\ handle_method_not_allowed
    /\ method_not_allowed = None
    /\ MethodsWithHandler(call.path, {call.method}) # <<>> ) =>
  ( /\ resp.kind = "response"
    /\ resp.status = 405
    /\ resp.allow = Append(MethodsWithHandler(call.path, {call.method}), "OPTIONS") )

\* C3 (amended): when moreover serve_http issues no redirect, the request is not
\* an OPTIONS request under handle_options, and the other method with a handler
\* is not OPTIONS, the reply is 405 and Allow lists exactly the methods other
\* than the requesting one and OPTIONS that have a handler for the path, in the
\* table's order, then OPTIONS.
C3_MethodNotAllowed ==
  ( /\ Served
    /\ RoutesFor(call.method, call.path) = {}
    /\ ~IsRedirect(resp)
    /\ ~(call.method = "OPTIONS" /\ handle_options)
    /\ handle_method_not_allowed
    /\ method_not_allowed = None
    /\ MethodsWithHandler(call.path, {call.method, "OPTIONS"}) # <<>> ) =>
  ( /\ resp.kind = "response"
    /\ resp.status = 405
    /\ resp.allow =
         Append(MethodsWithHandler(call.path, {call.method, "OPTIONS"}), "OPTIONS") )

C3_Witness ==
  /\ Served
  /\ call.method = "CONNECT"
  /\ resp.status = 405
  /\ resp.allow = <<"GET", "HEAD", "OPTIONS">>

\* Every registered method but OPTIONS, in the table's order.
MethodsButOptions ==
  SelectSeq(MethodOrder, LAMBDA m : m \in RegisteredMethods /\ m # "OPTIONS")

\* resp is the automatic reply to an OPTIONS request.
IsOptionsReply(r) == r.kind = "response" /\ r.status = 200 /\ r.allow # <<>>

\* C4 (as claimed): for path "*", allowed, and the Allow header of the automatic
\* OPTIONS reply, list every registered method except OPTIONS and nothing else.
C4_Claimed ==
  /\ (call.op = "allowed" /\ call.path = Star) => listed = MethodsButOptions
  /\ (Served /\ call.path = Star /\ IsOptionsReply(resp)) => resp.allow = MethodsButOptions

\* C4 (amended): for path "*", they list every registered method except OPTIONS,
\* in the table's order, and then OPTIONS; allowed is empty when no method other
\* than OPTIONS is registered.
C4_StarAllowed ==
  /\ (call.op = "allowed" /\ call.path = Star) =>
       listed = IF MethodsButOptions = <<>> THEN <<>>
                ELSE Append(MethodsButOptions, "OPTIONS")
  /\ (Served /\ call.path = Star /\ IsOptionsReply(resp)) =>
       resp.allow = Append(MethodsButOptions, "OPTIONS")

C4_Witness ==
  /\ Served
  /\ call.method = "OPTIONS" /\ call.path = Star
  /\ "OPTIONS" \in RegisteredMethods
  /\ IsOptionsReply(resp)
  /\ resp.allow = <<"GET", "OPTIONS">>

NothingAllowed ==
  IF call.path = Star THEN MethodsButOptions = <<>>
  ELSE MethodsWithHandler(call.path, {call.method, "OPTIONS"}) = <<>>

\* The step after routing is switched off: handle_options for an OPTIONS
\* request, else handle_method_not_allowed.
FallbackOff ==
  IF call.method = "OPTIONS" /\ handle_options THEN FALSE ELSE ~handle_method_not_allowed

C6_HandlerFirst ==
  /\ (Served /\ RoutesFor(call.method, call.path) # {}) =>
       \E r \in RoutesFor(call.method, call.path) :
          resp = Invoke(HandlerOf(r[1], r[2]), Match(r[2], call.path).ps)
  /\ (Served /\ IsOptionsReply(resp)) => RoutesFor("OPTIONS", call.path) = {}

C6_Witness ==
  /\ Served
  /\ call.method = "OPTIONS"
  /\ handle_options
  /\ Cardinality(registered) > 1
  /\ resp.kind = "invoke"
  /\ resp.handler = HandlerOf("OPTIONS", <<"/", ":", "p">>)
  /\ resp.ps = <<[key |-> <<"p">>, value |-> <<"A">>]>>

\* C7: handle with a pattern that does not start with '/' ends in the fatal
\* error and leaves every tree, and the set of trees, as it was.
C7_BadPatternRejected ==
  [][(call'.op = "handle" /\ ~StartsWithSlash(call'.path)) =>
       (fatal' /\ trees' = trees /\ registered' = registered)]_vars

C7_Witness ==
  /\ fatal
  /\ call.op = "handle" /\ ~StartsWithSlash(call.path)
  /\ registered # {}
  /\ call.method \notin DOMAIN trees

\* C8 (as claimed): when the request is not routed, handle_method_not_allowed is
\* set, the allowed list is non-empty and a method_not_allowed handler is
\* configured, the outcome is that handler's invocation together with the Allow
\* header of the allowed methods.
C8_Claimed ==
  ( /\ Served
    /\ Routed(Root(call.method), call.method, call.path) = NoResp
    /\ ~(call.method = "OPTIONS" /\ handle_options)
    /\ handle_method_not_allowed
    /\ method_not_allowed # None
    /\ allowed(call.path, call.method) # <<>> ) =>
  ( /\ resp.kind = "invoke"
    /\ resp.handler = method_not_allowed
    /\ resp.allow = allowed(call.path, call.method) )

\* C10: a request whose method was never registered is answered neither by a
\* route's handler nor by a redirect, but by the steps after routing; and
\* lookup for such a method returns no handler, no Params and no recommendation.
C10_NoTree ==
  /\ (Served /\ call.method \notin RegisteredMethods) =>
       /\ ~IsRedirect(resp)
       /\ resp.kind = "invoke" => resp.handler \in {NotFoundHandler, MethodNotAllowedHandler}
       /\ resp = Unrouted(call.method, call.path)
  /\ (call.op = "lookup" /\ call.method \notin RegisteredMethods) =>
       found = [handle |-> None, ps |-> NoParams, tsr |-> FALSE]

C10_Witness ==
  /\ Served
  /\ call.method = "HEAD"
  /\ call.method \notin RegisteredMethods
  /\ redirect_trailing_slash /\ redirect_fixed_path
  /\ RoutesFor("GET", SlashToggled(call.path)) # {}
  /\ RoutesFor("OPTIONS", call.path) # {}

\* C9: a step of a dispatch leaves the trees, the flags and the fallback handlers
\* as they were, and every dispatch, whatever runs beside it, returns the
\* response serve_http gives its request on the table alone.
C9_ReadOnlyServing ==
  /\ [][workers' # workers => table' = table]_vars
  /\ [](\A w \in Workers :
          workers[w].pc = "done" =>
            workers[w].resp = serve_http(workers[w].method, workers[w].path))

C9_Witness ==
  /\ workers["w1"].pc = "done" /\ workers["w1"].resp.allow = <<"GET", "OPTIONS">>
  /\ workers["w1"].method = "OPTIONS" /\ workers["w1"].path = Star
  /\ workers["w2"].pc = "route" /\ workers["w2"].method = "HEAD"

====
